---- MODULE Spec2Model ----
(***************************************************************************)
(* BristolBot: the query-time retrieval / rerank / generation pipeline     *)
(* (src/app.py) and the batch evaluation harnesses (src/run_test.py,       *)
(* src/evaluate_mlflow.py, src/evaluate_V1.py).                            *)
(*                                                                         *)
(* Rerank scores are floats in [0,1] in the program; here they are         *)
(* integers in hundredths (0.40 is 40, 0.20 is 20).  Python's 0-based      *)
(* positional ids str(i) are the 1-based positions of TLA+ sequences.      *)
(***************************************************************************)
EXTENDS Integers, Sequences, FiniteSets, TLC

VARIABLES
    \* ---- get_answer (src/app.py) ----
    pc,             \* position inside one get_answer call
    question,       \* the question of the call
    course_store,   \* rag_system["course_store"]: [present, docs]
    faq_store,      \* rag_system["faq_store"]:    [present, docs]
    all_retrieved,  \* merged candidates
    results,        \* what reranker.rerank returned
    best_docs,      \* what rerank_docs returned
    llm_calls,      \* number of llm.invoke calls made
    ret,            \* the returned triple (answer, sources, debug_info)
    exc,            \* the exception a collaborator raised during the call
    searches,       \* the similarity_search calls made by this call
    rank_fn,        \* the scores the (deterministic) reranker gave
    calls,          \* get_answer calls completed earlier
    prev_sources,   \* the sources the previous call returned
    prompt,         \* what llm.invoke was last given, None before any call
    \* ---- rerank_docs applied as a pure function ----
    rr_docs,        \* argument docs
    rr_scores,      \* the score the reranker gives to each of them
    rr_out,         \* [done, value]: the value returned
    \* ---- evaluation harness (run_test.py, evaluate_mlflow.py, evaluate_V1.py) ----
    variant,        \* which script runs
    hpc,            \* position inside the script
    n_cases,        \* len(df_test)
    h_course,       \* the script's course store
    h_faq,          \* the script's FAQ store (run_test.py only)
    h_i,            \* test cases the for loop has gone through
    questions, ground_truths, answers, contexts, retrieval_scores,
    failed,         \* per test case: did its try block raise (history)
    scored,         \* what evaluate() returned: metric -> value or Missing
    metrics_dict,   \* the metrics mapping built from it
    detailed_records,
    report,         \* the output file (output_json / OUTPUT_FILE)
    emergency,      \* emergency_results.csv / emergency_dump.csv
    \* ---- the "metrics" object of the report, value by value ----
    enc_pc,         \* position: "lookup", "dump", "done"
    enc_results,    \* results[m] of the scorer: metric -> Python value
    enc_metrics,    \* metrics_dict
    enc_json,       \* what json.dump wrote under "metrics"
    \* ---- chat input handler (src/app.py) ----
    messages,       \* st.session_state.messages
    query_times,    \* st.session_state.query_times
    last,           \* how get_answer ended in the last handler run (history)
    \* ---- cached resources of the process (src/app.py lines 27-60) ----
    loads,          \* times the body of initialize_rag_system has run
    clears,         \* times "Clear Cache" was pressed (history)
    served,         \* per answered query: the rag_system instance it used (history)
    \* ---- run_hybrid of get_qa_chain (src/backend.py) ----
    hy_pc,          \* position inside one run_hybrid call
    hy_inputs,      \* the inputs mapping: question, and topics if supplied
    hy_course,      \* course_store of the closure
    hy_faq,         \* faq_store of the closure
    hy_calls,       \* the similarity_search calls made, with their keyword arguments
    hy_faq_docs,    \* faq_docs
    hy_course_docs, \* course_docs
    hy_ret,         \* the returned pair (response.content, source_data)
    \* ---- feedback log (save_feedback of src/app.py) ----
    feedback_file,  \* PATHS["feedback_file"]: absent, or its rows
    fb_calls,       \* the save_feedback calls made so far (history)
    \* ---- archive crawler (src/scripts_etl/srape_general.py main) ----
    cr_pc,          \* "loop" while the while loop runs, then "done"
    queue,          \* queue: (url, category, depth) entries
    visited,        \* visited
    scraped_data,   \* scraped_data
    fetched,        \* per URL: the scrape_archive_page calls made on it (history)
    skips,          \* loop iterations ended by `continue` (history)
    output_file     \* OUTPUT_FILE: absent, or the pages written

pipeVars == <<pc, question, course_store, faq_store, all_retrieved, results,
              best_docs, llm_calls, ret, exc, searches, rank_fn, calls,
              prev_sources, prompt>>
rrVars == <<rr_docs, rr_scores, rr_out>>
hCfg == <<variant, n_cases, h_course, h_faq>>
hAcc == <<h_i, questions, ground_truths, answers, contexts, retrieval_scores, failed>>
hOut == <<scored, metrics_dict, detailed_records, report, emergency>>
harnessVars == <<hpc, hCfg, hAcc, hOut>>
encVars == <<enc_pc, enc_results, enc_metrics, enc_json>>
chatVars == <<messages, query_times, last>>
sessVars == <<loads, clears, served>>
hybridVars == <<hy_pc, hy_inputs, hy_course, hy_faq, hy_calls, hy_faq_docs,
                hy_course_docs, hy_ret>>
feedbackVars == <<feedback_file, fb_calls>>
crawlVars == <<cr_pc, queue, visited, scraped_data, fetched, skips, output_file>>
auxVars == <<hybridVars, feedbackVars, crawlVars>>
vars == <<pipeVars, rrVars, harnessVars, encVars, chatVars, sessVars, auxVars>>
nonPipeVars == <<rrVars, harnessVars, encVars, chatVars, sessVars, auxVars>>
nonRerankVars == <<pipeVars, harnessVars, encVars, chatVars, sessVars, auxVars>>
nonHarnessVars == <<pipeVars, rrVars, encVars, chatVars, sessVars, auxVars>>
nonEncVars == <<pipeVars, rrVars, harnessVars, chatVars, sessVars, auxVars>>

----------------------------------------------------------------------------
\* Program constants (CONFIG["retrieval"], scores in hundredths)
initial_k == 10
final_k == 5
score_threshold == 40
fallback_floor == 20

\* Bounds of the model
MaxStoreDocs == 2
MaxDocs == 6
MaxCalls == 2

Scores == {10, 20, 30, 40, 50, 90}
Questions == {"q1"}
Answers == {"ans1", "ans2"}

NoScore == -1
Absent == <<"absent">>
None == [none |-> TRUE]
NoFile == [exists |-> FALSE]
NoError == [raised |-> FALSE]
NO_INFO == "I couldn't find relevant information in the database."

Min(a, b) == IF a < b THEN a ELSE b

----------------------------------------------------------------------------
\* Documents.  A Document has page_content and metadata; metadata may lack
\* "title" and "url" (Absent) and has no "score" (NoScore) until reranked.
\* The second document of the course store and of the FAQ store have the
\* same content and the same metadata (the same page indexed twice).
Doc(src, i) ==
    [page_content |-> IF i = 2 THEN <<"both", i>> ELSE <<src, i>>,
     title |-> IF i % 2 = 1 THEN <<"title", src, i>> ELSE Absent,
     url |-> IF i <= 1 THEN <<"url", src, i>> ELSE Absent,
     score |-> NoScore]

StoreDocs(src, n) == [i \in 1..n |-> Doc(src, i)]

\* load_vectorstore: None when the path does not exist, else the loaded store
Stores(src) ==
    {[present |-> FALSE, docs |-> <<>>]}
        \cup {[present |-> TRUE, docs |-> StoreDocs(src, n)] : n \in 0..MaxStoreDocs}

\* store.similarity_search(question, k=k): up to k documents
similarity_search(store, k) == SubSeq(store.docs, 1, Min(k, Len(store.docs)))

----------------------------------------------------------------------------
\* reranker.rerank: one {id, score} per passage, highest score first; equal
\* scores keep the order of the passages (a stable descending sort).
RankOf(sc, i) ==
    1 + Cardinality({j \in DOMAIN sc : sc[j] > sc[i] \/ (sc[j] = sc[i] /\ j < i)})

rerank(sc) ==
    [p \in 1..Len(sc) |->
        LET i == CHOOSE j \in 1..Len(sc) : RankOf(sc, j) = p
        IN  [id |-> i, score |-> sc[i]]]

ScoreVectors(n) == [1..n -> Scores]

\* Mutants of the threshold filter, the floor test and the cut
PassesThresholdInclusive(score) == score >= score_threshold

ClearsFloorAlways(score) == score > 0

TruncateNothing(sorted_docs) == sorted_docs

\* res['score'] > threshold
PassesThreshold(score) == score > score_threshold

\* results[0]['score'] > 0.20
ClearsFloor(score) == score > fallback_floor

\* Mutant of the attachment: the id is taken as a 1-based position
AttachOffByOne(docs, res) ==
    [docs[IF res.id > 1 THEN res.id - 1 ELSE Len(docs)] EXCEPT !.score = res.score]

\* Mutant of the attachment: the score is added to the one already there
AttachAdd(docs, res) ==
    [docs[res.id] EXCEPT !.score =
        IF docs[res.id].score = NoScore THEN res.score
        ELSE docs[res.id].score + res.score]

\* doc = docs[int(res['id'])]; doc.metadata["score"] = res['score']
Attach(docs, res) == [docs[res.id] EXCEPT !.score = res.score]

\* the for loop over results: every result above the threshold, in order
RECURSIVE FilterLoop(_, _)
FilterLoop(docs, res) ==
    IF res = <<>> THEN <<>>
    ELSE IF PassesThreshold(Head(res).score)
         THEN <<Attach(docs, Head(res))>> \o FilterLoop(docs, Tail(res))
         ELSE FilterLoop(docs, Tail(res))

\* Mutant of the fallback: results[-1] in place of results[0]
FallbackLast(docs, res, sorted_docs) ==
    IF sorted_docs = <<>> /\ res # <<>>
    THEN IF ClearsFloor(res[Len(res)].score)
         THEN <<Attach(docs, res[Len(res)])>> ELSE <<>>
    ELSE sorted_docs

\* if not sorted_docs and results: keep results[0] when it clears the floor
Fallback(docs, res, sorted_docs) ==
    IF sorted_docs = <<>> /\ res # <<>>
    THEN IF ClearsFloor(res[1].score) THEN <<Attach(docs, res[1])>> ELSE <<>>
    ELSE sorted_docs

\* sorted_docs[:final_k]
Truncate(sorted_docs) == SubSeq(sorted_docs, 1, Min(final_k, Len(sorted_docs)))

\* rerank_docs, after the reranker has answered with res (docs non-empty)
rerank_docs(docs, res) == Truncate(Fallback(docs, res, FilterLoop(docs, res)))

----------------------------------------------------------------------------
\* get_answer

\* Mutants of the empty-result test
ShortCircuitNever(docs) == FALSE

ShortCircuitInverted(docs) == docs # <<>>

\* if not best_docs: return the fixed answer
ShortCircuit(docs) == docs = <<>>

\* Mutant of the source list: one descriptor per title, the first passage of
\* each title (the `seen` set of backend.py lines 115-125)
SourcesByTitle(docs) ==
    LET shown(d) == IF d.title = Absent THEN <<"Unknown">> ELSE d.title
        first == {i \in 1..Len(docs) :
                     \A j \in 1..(i - 1) : shown(docs[j]) # shown(docs[i])}
        numbered == [i \in 1..Len(docs) |-> [at |-> i, doc |-> docs[i]]]
        kept == SelectSeq(numbered, LAMBDA n : n.at \in first)
    IN  [k \in 1..Len(kept) |->
            [title |-> shown(kept[k].doc),
             url |-> IF kept[k].doc.url = Absent THEN <<"#">> ELSE kept[k].doc.url,
             score |-> IF kept[k].doc.score = NoScore THEN 0 ELSE kept[k].doc.score,
             content |-> kept[k].doc.page_content]]

\* the source descriptors built from best_docs
Sources(docs) ==
    [i \in 1..Len(docs) |->
        [title |-> IF docs[i].title = Absent THEN <<"Unknown">> ELSE docs[i].title,
         url |-> IF docs[i].url = Absent THEN <<"#">> ELSE docs[i].url,
         score |-> IF docs[i].score = NoScore THEN 0 ELSE docs[i].score,
         content |-> docs[i].page_content]]

\* what a collaborator (store, reranker, generator) may raise
Errors == {"ConnectionError", "RuntimeError"}

\* the differences of time.time() readings: a positive duration per stage
Stages == {"retrieval", "rerank", "generation", "total"}
Elapsed(stage) == IF stage = "total" THEN 3 ELSE 1

\* Mutant of debug_info: the timings are collected in debug mode only
DebugInfoTimingsInDebugOnly(all, best, debug_mode) ==
    IF debug_mode
    THEN [total_retrieved |-> Len(all), after_rerank |-> Len(best),
          threshold |-> score_threshold,
          timings |-> [s \in Stages |-> Elapsed(s)]]
    ELSE [total_retrieved |-> Len(all)]

\* lines 139-144: debug_info of the normal return
DebugInfo(all, best, debug_mode) ==
    IF debug_mode
    THEN [total_retrieved |-> Len(all), after_rerank |-> Len(best),
          threshold |-> score_threshold,
          timings |-> [s \in Stages |-> Elapsed(s)]]
    ELSE [timings |-> [s \in Stages |-> Elapsed(s)]]

\* the separator of line 126, a blank line
BlankLine == <<"\n\n">>

\* sep.join(pieces): the pieces in order, sep between two neighbours
RECURSIVE Join(_, _)
Join(sep, pieces) ==
    IF Len(pieces) <= 1 THEN pieces
    ELSE <<Head(pieces), sep>> \o Join(sep, Tail(pieces))

\* Mutant of the context block: the passages in ascending order of score
ContextTextReversed(best) ==
    Join(BlankLine, [i \in 1..Len(best) |-> best[Len(best) + 1 - i].page_content])

\* line 126: the context block of the prompt
ContextText(best) ==
    Join(BlankLine, [i \in 1..Len(best) |-> best[i].page_content])

\* line 127: prompt.format(context=context_text, question=question)
PromptFormat(context_text, q) == [context |-> context_text, question |-> q]

\* line 121: the triple of the early return
EarlyReturn == [answer |-> NO_INFO, sources |-> <<>>, debug_info |-> None]

\* line 146: the triple of the normal return
AnswerRecord(content, all, best, debug_mode) ==
    [answer |-> content,
     sources |-> Sources(best),
     debug_info |-> DebugInfo(all, best, debug_mode)]

\* lines 101-112: the stores that are present, course store first
Merged(course, faq) ==
    (IF course.present THEN similarity_search(course, initial_k) ELSE <<>>)
    \o (IF faq.present THEN similarity_search(faq, initial_k) ELSE <<>>)

\* the similarity_search calls of lines 104-112
SearchLog(course, faq) ==
    (IF course.present THEN <<[store |-> "course", k |-> initial_k]>> ELSE <<>>)
    \o (IF faq.present THEN <<[store |-> "faq", k |-> initial_k]>> ELSE <<>>)

\* the results whose candidate has the score written into its metadata: each
\* one above the threshold, else results[0] when it clears the floor
Marked(res) ==
    LET above == {j \in DOMAIN res : PassesThreshold(res[j].score)}
    IN  IF above # {} THEN above
        ELSE IF res # <<>> /\ ClearsFloor(res[1].score) THEN {1} ELSE {}

\* doc.metadata["score"] = res['score'] writes into the Document objects of
\* the candidate list, which are the objects the stores hold
WriteBack(docs, res) ==
    [i \in DOMAIN docs |->
        IF \E j \in Marked(res) : res[j].id = i
        THEN Attach(docs, res[CHOOSE j \in Marked(res) : res[j].id = i])
        ELSE docs[i]]

\* a store whose first documents are the (written) ones it returned
StoreAfter(store, part) ==
    [store EXCEPT !.docs = part \o SubSeq(store.docs, Len(part) + 1, Len(store.docs))]

CourseCount(course) ==
    IF course.present THEN Len(similarity_search(course, initial_k)) ELSE 0

CourseAfter(course, written) ==
    IF course.present
    THEN StoreAfter(course, SubSeq(written, 1, CourseCount(course)))
    ELSE course

FaqAfter(course, faq, written) ==
    IF faq.present
    THEN StoreAfter(faq, SubSeq(written, CourseCount(course) + 1, Len(written)))
    ELSE faq

\* no get_answer call under way, no stores loaded
PipelineIdle ==
    /\ pc = "idle"
    /\ question \in Questions
    /\ course_store = [present |-> FALSE, docs |-> <<>>]
    /\ faq_store = [present |-> FALSE, docs |-> <<>>]
    /\ all_retrieved = <<>>
    /\ results = <<>>
    /\ best_docs = <<>>
    /\ llm_calls = 0
    /\ ret = None
    /\ exc = NoError
    /\ searches = <<>>
    /\ rank_fn = <<>>
    /\ calls = 0
    /\ prev_sources = <<>>
    /\ prompt = None

\* rerank_docs not called on its own
RerankIdle ==
    /\ rr_docs = <<>>
    /\ rr_scores = <<>>
    /\ rr_out = [done |-> FALSE, value |-> <<>>]

\* no evaluation script running
HarnessIdle ==
    /\ hpc = "idle"
    /\ variant = "none"
    /\ n_cases = 0
    /\ h_course = [present |-> FALSE, docs |-> <<>>]
    /\ h_faq = [present |-> FALSE, docs |-> <<>>]
    /\ h_i = 0
    /\ questions = <<>>
    /\ ground_truths = <<>>
    /\ answers = <<>>
    /\ contexts = <<>>
    /\ retrieval_scores = <<>>
    /\ failed = <<>>
    /\ scored = None
    /\ metrics_dict = None
    /\ detailed_records = <<>>
    /\ report = NoFile
    /\ emergency = NoFile

\* no report being serialized
EncodeIdle ==
    /\ enc_pc = "idle"
    /\ enc_results = None
    /\ enc_metrics = None
    /\ enc_json = None

\* no chat session
ChatIdle ==
    /\ messages = <<>>
    /\ query_times = <<>>
    /\ last = None
    /\ loads = 0
    /\ clears = 0
    /\ served = {}

\* run_hybrid not called
HybridIdle ==
    /\ hy_pc = "idle"
    /\ hy_inputs = None
    /\ hy_course = [present |-> FALSE, docs |-> <<>>]
    /\ hy_faq = [present |-> FALSE, docs |-> <<>>]
    /\ hy_calls = <<>>
    /\ hy_faq_docs = <<>>
    /\ hy_course_docs = <<>>
    /\ hy_ret = None

\* save_feedback never called
FeedbackIdle ==
    /\ feedback_file = NoFile
    /\ fb_calls = <<>>

\* the crawler not started
CrawlIdle ==
    /\ cr_pc = "idle"
    /\ queue = <<>>
    /\ visited = {}
    /\ scraped_data = <<>>
    /\ fetched = <<>>
    /\ skips = 0
    /\ output_file = NoFile

AuxIdle == HybridIdle /\ FeedbackIdle /\ CrawlIdle

Init ==
    /\ pc = "start"
    /\ question \in Questions
    /\ course_store \in Stores("course")
    /\ faq_store \in Stores("faq")
    /\ all_retrieved = <<>>
    /\ results = <<>>
    /\ best_docs = <<>>
    /\ llm_calls = 0
    /\ ret = None
    /\ exc = NoError
    /\ searches = <<>>
    /\ rank_fn = <<>>
    /\ calls = 0
    /\ prev_sources = <<>>
    /\ prompt = None
    /\ RerankIdle
    /\ HarnessIdle
    /\ EncodeIdle
    /\ ChatIdle
    /\ AuxIdle

\* Mutant of the fan-out: the FAQ store is searched first
RetrieveFaqFirst ==
    /\ pc = "start"
    /\ all_retrieved' = Merged(faq_store, course_store)
    /\ searches' = searches \o SearchLog(course_store, faq_store)
    /\ pc' = "retrieved"
    /\ UNCHANGED <<question, course_store, faq_store, results, best_docs,
                   llm_calls, ret, exc, rank_fn, calls, prev_sources, prompt,
                   nonPipeVars>>

\* lines 101-114: fan-out retrieval over the stores that are present
Retrieve ==
    /\ pc = "start"
    /\ all_retrieved' = Merged(course_store, faq_store)
    /\ searches' = searches \o SearchLog(course_store, faq_store)
    /\ pc' = "retrieved"
    /\ UNCHANGED <<question, course_store, faq_store, results, best_docs,
                   llm_calls, ret, exc, rank_fn, calls, prev_sources, prompt,
                   nonPipeVars>>

\* lines 104-112: a similarity_search call raises; get_answer has no handler
SearchRaises ==
    /\ pc = "start"
    /\ \E src \in {"course", "faq"}, e \in Errors :
          /\ IF src = "course" THEN course_store.present ELSE faq_store.present
          /\ all_retrieved' =
                IF src = "faq"
                THEN Merged(course_store, [present |-> FALSE, docs |-> <<>>])
                ELSE <<>>
          /\ searches' =
                searches \o
                (IF src = "faq"
                 THEN SearchLog(course_store, faq_store)
                 ELSE SearchLog(course_store, [present |-> FALSE, docs |-> <<>>]))
          /\ exc' = [raised |-> TRUE, error |-> e]
    /\ pc' = "raised"
    /\ UNCHANGED <<question, course_store, faq_store, results, best_docs,
                   llm_calls, ret, rank_fn, calls, prev_sources, prompt, nonPipeVars>>

\* lines 116-118 with rerank_docs, lines 64-89
Rerank ==
    /\ pc = "retrieved"
    /\ IF all_retrieved = <<>>
       THEN /\ results' = <<>>
            /\ best_docs' = <<>>
            /\ UNCHANGED <<all_retrieved, course_store, faq_store, rank_fn>>
       ELSE \E sc \in (IF rank_fn = <<>>
                       THEN ScoreVectors(Len(all_retrieved)) ELSE {rank_fn}) :
                LET written == WriteBack(all_retrieved, rerank(sc))
                IN  /\ results' = rerank(sc)
                    /\ best_docs' = rerank_docs(all_retrieved, rerank(sc))
                    /\ all_retrieved' = written
                    /\ course_store' = CourseAfter(course_store, written)
                    /\ faq_store' = FaqAfter(course_store, faq_store, written)
                    /\ rank_fn' = sc
    /\ pc' = "reranked"
    /\ UNCHANGED <<question, llm_calls, ret, exc, searches, calls,
                   prev_sources, prompt, nonPipeVars>>

\* line 72: reranker.rerank raises; neither rerank_docs nor get_answer has a
\* handler
RerankRaises ==
    /\ pc = "retrieved"
    /\ all_retrieved # <<>>
    /\ \E e \in Errors : exc' = [raised |-> TRUE, error |-> e]
    /\ pc' = "raised"
    /\ UNCHANGED <<question, course_store, faq_store, all_retrieved, results,
                   best_docs, llm_calls, ret, searches, rank_fn, calls,
                   prev_sources, prompt, nonPipeVars>>

\* lines 120-121: nothing survived
ReturnNoInfo ==
    /\ pc = "reranked"
    /\ ShortCircuit(best_docs)
    /\ ret' = EarlyReturn
    /\ pc' = "returned"
    /\ UNCHANGED <<question, course_store, faq_store, all_retrieved, results,
                   best_docs, llm_calls, exc, searches, rank_fn, calls,
                   prev_sources, prompt, nonPipeVars>>

\* lines 123-146: one generator call, then the answer record
Generate ==
    /\ pc = "reranked"
    /\ ~ShortCircuit(best_docs)
    /\ \E content \in Answers, debug_mode \in BOOLEAN :
          ret' = AnswerRecord(content, all_retrieved, best_docs, debug_mode)
    /\ llm_calls' = llm_calls + 1
    /\ prompt' = PromptFormat(ContextText(best_docs), question)
    /\ pc' = "returned"
    /\ UNCHANGED <<question, course_store, faq_store, all_retrieved, results,
                   best_docs, exc, searches, rank_fn, calls, prev_sources,
                   nonPipeVars>>

\* Mutant of the failing generator call: the error is swallowed and an answer
\* record is returned
GenerateRaisesSwallowed ==
    /\ pc = "reranked"
    /\ ~ShortCircuit(best_docs)
    /\ \E e \in Errors : exc' = [raised |-> TRUE, error |-> e]
    /\ ret' = [answer |-> "Error", sources |-> <<>>, debug_info |-> None]
    /\ llm_calls' = llm_calls + 1
    /\ prompt' = PromptFormat(ContextText(best_docs), question)
    /\ pc' = "returned"
    /\ UNCHANGED <<question, course_store, faq_store, all_retrieved, results,
                   best_docs, searches, rank_fn, calls, prev_sources,
                   nonPipeVars>>

\* line 127: llm.invoke raises; get_answer has no handler
GenerateRaises ==
    /\ pc = "reranked"
    /\ ~ShortCircuit(best_docs)
    /\ \E e \in Errors : exc' = [raised |-> TRUE, error |-> e]
    /\ llm_calls' = llm_calls + 1
    /\ prompt' = PromptFormat(ContextText(best_docs), question)
    /\ pc' = "raised"
    /\ UNCHANGED <<question, course_store, faq_store, all_retrieved, results,
                   best_docs, ret, searches, rank_fn, calls, prev_sources,
                   nonPipeVars>>

Next ==
    \/ Retrieve
    \/ SearchRaises
    \/ Rerank
    \/ RerankRaises
    \/ ReturnNoInfo
    \/ Generate
    \/ GenerateRaises

Spec == Init /\ [][Next]_vars

\* get_answer has returned and the application calls it again: the same
\* question, the same rag_system (the cached stores, with whatever the first
\* call wrote into their documents), the same reranker
NextCall ==
    /\ pc = "returned"
    /\ calls + 1 < MaxCalls
    /\ prev_sources' = ret.sources
    /\ calls' = calls + 1
    /\ all_retrieved' = <<>>
    /\ results' = <<>>
    /\ best_docs' = <<>>
    /\ ret' = None
    /\ searches' = <<>>
    /\ pc' = "start"
    /\ UNCHANGED <<question, course_store, faq_store, llm_calls, exc, rank_fn,
                   prompt, nonPipeVars>>

\* the first call: as Init, with at most MaxStoreDocs documents in the two
\* stores together
InitTwice ==
    /\ Init
    /\ Len(course_store.docs) + Len(faq_store.docs) <= MaxStoreDocs

NextTwice == Next \/ NextCall

SpecTwice == InitTwice /\ [][NextTwice]_vars

----------------------------------------------------------------------------
\* rerank_docs as a pure function of its arguments: any non-empty or empty
\* candidate list of up to MaxDocs documents, any scores.

InitRerank ==
    /\ PipelineIdle
    /\ HarnessIdle
    /\ EncodeIdle
    /\ ChatIdle
    /\ AuxIdle
    /\ \E n \in 0..MaxDocs :
          /\ rr_docs = StoreDocs("course", n)
          /\ rr_scores \in ScoreVectors(n)
    /\ rr_out = [done |-> FALSE, value |-> <<>>]

ApplyRerank ==
    /\ ~rr_out.done
    /\ rr_out' = [done |-> TRUE,
                  value |-> IF rr_docs = <<>> THEN <<>>
                            ELSE rerank_docs(rr_docs, rerank(rr_scores))]
    /\ UNCHANGED <<nonRerankVars, rr_docs, rr_scores>>

NextRerank == ApplyRerank

SpecRerank == InitRerank /\ [][NextRerank]_vars

----------------------------------------------------------------------------
\* The evaluation scripts: run_test.py (run_experiment), evaluate_mlflow.py
\* and evaluate_V1.py.  One run: the for loop over df_test, then grading.

Variants == {"run_test", "evaluate_mlflow", "evaluate_V1"}
Metrics == {"faithfulness", "answer_relevancy", "context_recall", "answer_correctness"}
Missing == -1
\* what the scorer holds for a metric: nothing, or a value (in hundredths)
MetricResults == {Missing, 75, 100}
\* the reranker's scores met in the evaluation runs
HarnessScores == {10, 50, 90}
\* the generator's answers met in the evaluation runs
HarnessAnswers == {"ans1"}
RETRIEVER_K == 3
MaxCases == 2

\* row i of df_test
QuestionOf(i) == <<"Question", i>>
TruthOf(i) == <<"Ground_Truth", i>>

\* the stores of a script: run_test.py loads each store whose path exists,
\* the other two scripts stop at start-up unless their one store exists
HarnessStores(src) ==
    {[present |-> FALSE, docs |-> <<>>],
     [present |-> TRUE, docs |-> StoreDocs(src, 1)]}

PageContents(docs) == [k \in 1..Len(docs) |-> docs[k].page_content]

\* Mutant of the score list: the scores in reverse order
ScoresOfReversed(docs) ==
    [k \in 1..Len(docs) |->
        IF docs[Len(docs) + 1 - k].score = NoScore THEN 0
        ELSE docs[Len(docs) + 1 - k].score]

\* scores = [d.metadata.get("score", 0) for d in best_docs]
ScoresOf(docs) ==
    [k \in 1..Len(docs) |-> IF docs[k].score = NoScore THEN 0 ELSE docs[k].score]

\* answers.append(...) of the except branch
Sentinel(v) == IF v = "evaluate_V1" THEN "Error generating answer" ELSE "Error"

InitHarness ==
    /\ PipelineIdle
    /\ RerankIdle
    /\ EncodeIdle
    /\ ChatIdle
    /\ AuxIdle
    /\ hpc = "loop"
    /\ variant \in Variants
    /\ n_cases \in 0..MaxCases
    /\ h_course \in HarnessStores("course")
    /\ h_faq \in HarnessStores("faq")
    /\ variant # "run_test" => (h_course.present /\ ~h_faq.present)
    /\ h_i = 0
    /\ questions = <<>>
    /\ ground_truths = <<>>
    /\ answers = <<>>
    /\ contexts = <<>>
    /\ retrieval_scores = <<>>
    /\ failed = <<>>
    /\ scored = None
    /\ metrics_dict = None
    /\ detailed_records = <<>>
    /\ report = NoFile
    /\ emergency = NoFile

\* Mutant of the appends: the retrieval scores of the row are not recorded
AppendRowNoScores(q, truth, ans, ctx, sc) ==
    /\ questions' = Append(questions, q)
    /\ ground_truths' = Append(ground_truths, truth)
    /\ answers' = Append(answers, ans)
    /\ contexts' = Append(contexts, ctx)
    /\ UNCHANGED retrieval_scores

\* run_test.py lines 154-182: the try block went through
AppendRow(q, truth, ans, ctx, sc) ==
    /\ questions' = Append(questions, q)
    /\ ground_truths' = Append(ground_truths, truth)
    /\ answers' = Append(answers, ans)
    /\ contexts' = Append(contexts, ctx)
    /\ retrieval_scores' =
          IF variant = "run_test" THEN Append(retrieval_scores, sc)
          ELSE retrieval_scores

\* run_test.py: retrieval over both stores, rerank_docs, one chain.invoke
\* (also when best_docs is empty), then the five appends
ProcessCaseRunTest ==
    /\ hpc = "loop" /\ variant = "run_test" /\ h_i < n_cases
    /\ LET faq_docs == IF h_faq.present
                       THEN similarity_search(h_faq, initial_k) ELSE <<>>
           course_docs == IF h_course.present
                          THEN similarity_search(h_course, initial_k) ELSE <<>>
           retrieved == faq_docs \o course_docs
       IN  \E sc \in [1..Len(retrieved) -> HarnessScores], ans \in HarnessAnswers :
              LET best == IF retrieved = <<>> THEN <<>>
                          ELSE rerank_docs(retrieved, rerank(sc))
              IN  AppendRow(QuestionOf(h_i + 1), TruthOf(h_i + 1), ans,
                            PageContents(best), ScoresOf(best))
    /\ failed' = Append(failed, FALSE)
    /\ h_i' = h_i + 1
    /\ UNCHANGED <<hpc, hCfg, hOut, nonHarnessVars>>

\* evaluate_mlflow.py lines 100-109, evaluate_V1.py lines 83-95:
\* rag_chain.invoke, retriever.invoke, then the four appends
ProcessCaseChain ==
    /\ hpc = "loop" /\ variant # "run_test" /\ h_i < n_cases
    /\ \E ans \in HarnessAnswers :
          AppendRow(QuestionOf(h_i + 1), TruthOf(h_i + 1), ans,
                    PageContents(similarity_search(h_course, RETRIEVER_K)), <<>>)
    /\ failed' = Append(failed, FALSE)
    /\ h_i' = h_i + 1
    /\ UNCHANGED <<hpc, hCfg, hOut, nonHarnessVars>>

\* Mutant of the except branch: the row is dropped (as evaluate_quick_test.py does)
ProcessCaseFailSkipsRow ==
    /\ hpc = "loop" /\ h_i < n_cases
    /\ failed' = Append(failed, TRUE)
    /\ h_i' = h_i + 1
    /\ UNCHANGED <<questions, ground_truths, answers, contexts, retrieval_scores,
                   hpc, hCfg, hOut, nonHarnessVars>>

\* the except branch: a store search, the reranker or the generator raised
\* somewhere in the try block, before any append
ProcessCaseFail ==
    /\ hpc = "loop" /\ h_i < n_cases
    /\ AppendRow(QuestionOf(h_i + 1), TruthOf(h_i + 1), Sentinel(variant),
                 <<"No context">>, <<>>)
    /\ failed' = Append(failed, TRUE)
    /\ h_i' = h_i + 1
    /\ UNCHANGED <<hpc, hCfg, hOut, nonHarnessVars>>

\* the for loop is exhausted
LoopEnd ==
    /\ hpc = "loop" /\ h_i = n_cases
    /\ hpc' = "grade"
    /\ UNCHANGED <<hCfg, hAcc, hOut, nonHarnessVars>>

\* data_dict
DataRows ==
    [i \in 1..Len(questions) |->
        [question |-> questions[i], answer |-> answers[i],
         contexts |-> contexts[i], ground_truth |-> ground_truths[i]]]

\* Mutant of the handler: print only (as evaluate_V1.py does)
EmergencyDumpPrintOnly == emergency

\* the except branch of the grading block: the emergency dump
EmergencyDump ==
    IF variant \in {"run_test", "evaluate_mlflow"} /\ Len(answers) > 0
    THEN [exists |-> TRUE, rows |-> DataRows]
    ELSE emergency

\* dataset = Dataset.from_dict(data_dict), outside every try block: an error
\* here ends the script
BuildDataset ==
    /\ hpc = "grade"
    /\ \E ok \in BOOLEAN : hpc' = IF ok THEN "evaluate" ELSE "crashed"
    /\ UNCHANGED <<hCfg, hAcc, hOut, nonHarnessVars>>

\* results = evaluate(...): raises, or returns a result that holds a value
\* for some of the metrics
Evaluate ==
    /\ hpc = "evaluate"
    /\ \/ /\ emergency' = EmergencyDump
          /\ hpc' = "done"
          /\ UNCHANGED scored
       \/ /\ scored' \in [Metrics -> MetricResults]
          /\ hpc' = IF variant = "run_test" THEN "metrics" ELSE "to_csv"
          /\ UNCHANGED emergency
    /\ UNCHANGED <<hCfg, hAcc, metrics_dict, detailed_records, report,
                   nonHarnessVars>>

\* Mutant of the lookup: a missing metric is left out
MetricLookupSkipsMissing(res) == [m \in {x \in Metrics : res[x] # Missing} |-> res[m]]

\* run_test.py lines 210-216: one guarded lookup per metric, 0 when it fails
MetricLookup(res) == [m \in Metrics |-> IF res[m] = Missing THEN 0 ELSE res[m]]

ExtractMetrics ==
    /\ hpc = "metrics"
    /\ metrics_dict' = MetricLookup(scored)
    /\ hpc' = "details"
    /\ UNCHANGED <<hCfg, hAcc, scored, detailed_records, report, emergency,
                   nonHarnessVars>>

\* results.to_pandas().to_dict(orient="records") with the scores injected
ScoredRecords ==
    [i \in 1..Len(questions) |->
        [question |-> questions[i], answer |-> answers[i],
         contexts |-> contexts[i], ground_truth |-> ground_truths[i],
         scored |-> TRUE,
         retrieved_scores |-> IF i <= Len(retrieval_scores)
                              THEN retrieval_scores[i] ELSE <<>>]]

\* Mutant of the fallback: the retrieval scores are left out
RawRecordsNoScores ==
    [i \in 1..Len(questions) |->
        [question |-> questions[i], answer |-> answers[i],
         ground_truth |-> ground_truths[i], retrieved_scores |-> <<>>]]

\* the fallback: zip(questions, answers, ground_truths, retrieval_scores)
RawRecords ==
    [i \in 1..Min(Min(Len(questions), Len(answers)),
                  Min(Len(ground_truths), Len(retrieval_scores))) |->
        [question |-> questions[i], answer |-> answers[i],
         ground_truth |-> ground_truths[i],
         retrieved_scores |-> retrieval_scores[i]]]

\* run_test.py lines 219-238
ExtractDetails ==
    /\ hpc = "details"
    /\ \E ok \in BOOLEAN :
          detailed_records' = IF ok THEN ScoredRecords ELSE RawRecords
    /\ hpc' = "write"
    /\ UNCHANGED <<hCfg, hAcc, scored, metrics_dict, report, emergency,
                   nonHarnessVars>>

\* run_test.py lines 240-265: the report is written, or the write raises
\* and the handler dumps the raw rows
WriteReport ==
    /\ hpc = "write"
    /\ \/ /\ report' = [exists |-> TRUE, status |-> "Success",
                        metrics |-> metrics_dict,
                        detailed_results |-> detailed_records]
          /\ UNCHANGED emergency
       \/ /\ emergency' = EmergencyDump
          /\ UNCHANGED report
    /\ hpc' = "done"
    /\ UNCHANGED <<hCfg, hAcc, scored, metrics_dict, detailed_records,
                   nonHarnessVars>>

\* evaluate_mlflow.py lines 143-146, evaluate_V1.py lines 129-130:
\* results.to_pandas() and to_csv(OUTPUT_FILE), either of which may raise
SaveCsv ==
    /\ hpc = "to_csv"
    /\ \/ /\ report' = [exists |-> TRUE, rows |-> DataRows]
          /\ hpc' = IF variant = "evaluate_mlflow" THEN "log" ELSE "done"
          /\ UNCHANGED emergency
       \/ /\ emergency' = EmergencyDump
          /\ hpc' = "done"
          /\ UNCHANGED report
    /\ UNCHANGED <<hCfg, hAcc, scored, metrics_dict, detailed_records,
                   nonHarnessVars>>

\* evaluate_mlflow.py lines 149-163: the metrics found are logged, or an
\* MLflow call raises
LogMlflow ==
    /\ hpc = "log"
    /\ \/ /\ metrics_dict' =
                [m \in {x \in Metrics : scored[x] # Missing} |-> scored[m]]
          /\ UNCHANGED emergency
       \/ /\ emergency' = EmergencyDump
          /\ UNCHANGED metrics_dict
    /\ hpc' = "done"
    /\ UNCHANGED <<hCfg, hAcc, scored, detailed_records, report,
                   nonHarnessVars>>

NextHarness ==
    \/ ProcessCaseRunTest
    \/ ProcessCaseChain
    \/ ProcessCaseFail
    \/ LoopEnd
    \/ BuildDataset
    \/ Evaluate
    \/ ExtractMetrics
    \/ ExtractDetails
    \/ WriteReport
    \/ SaveCsv
    \/ LogMlflow

SpecHarness == InitHarness /\ [][NextHarness]_vars

----------------------------------------------------------------------------
\* The "metrics" object of the report of run_test.py, value by value: what
\* results[m] holds, what metrics_dict holds, what json.dump writes.

\* what results[m] may be: a numpy integer, a numpy float, a Python float,
\* a numpy array or a list of per-row scores (values in hundredths)
PyValues ==
    {[type |-> "np.integer", v |-> 1],
     [type |-> "np.floating", v |-> 75],
     [type |-> "float", v |-> 75],
     [type |-> "np.ndarray", items |-> <<75, 100>>],
     [type |-> "list", items |-> <<75, 100>>]}

\* results[m] raises
LookupRaises == [type |-> "KeyError"]

\* NumpyEncoder.default: int(obj), float(obj), obj.tolist()
NumpyEncoder_default(obj) ==
    CASE obj.type = "np.integer" -> [type |-> "int", v |-> obj.v]
      [] obj.type = "np.floating" -> [type |-> "float", v |-> obj.v]
      [] obj.type = "np.ndarray" -> [type |-> "list", items |-> obj.items]

\* json.dump of one value: an int and a float are written as numbers, a list
\* as an array; any other object goes through NumpyEncoder.default first
JsonOf(obj) ==
    LET py == IF obj.type \in {"int", "float", "list"}
              THEN obj ELSE NumpyEncoder_default(obj)
    IN  CASE py.type = "int" -> [json |-> "integer", v |-> py.v]
          [] py.type = "float" -> [json |-> "real", v |-> py.v]
          [] py.type = "list" -> [json |-> "array", items |-> py.items]

InitEncode ==
    /\ PipelineIdle
    /\ RerankIdle
    /\ HarnessIdle
    /\ ChatIdle
    /\ AuxIdle
    /\ enc_pc = "lookup"
    /\ enc_results \in [Metrics -> PyValues \cup {LookupRaises}]
    /\ enc_metrics = None
    /\ enc_json = None

\* run_test.py lines 210-216: metrics_dict[m] = results[m], or 0
LookupMetrics ==
    /\ enc_pc = "lookup"
    /\ enc_metrics' =
          [m \in Metrics |->
              IF enc_results[m] = LookupRaises
              THEN [type |-> "int", v |-> 0] ELSE enc_results[m]]
    /\ enc_pc' = "dump"
    /\ UNCHANGED <<enc_results, enc_json, nonEncVars>>

\* run_test.py lines 252-253: json.dump(full_package, f, cls=NumpyEncoder)
DumpMetrics ==
    /\ enc_pc = "dump"
    /\ enc_json' = [m \in Metrics |-> JsonOf(enc_metrics[m])]
    /\ enc_pc' = "done"
    /\ UNCHANGED <<enc_results, enc_metrics, nonEncVars>>

NextEncode == LookupMetrics \/ DumpMetrics

SpecEncode == InitEncode /\ [][NextEncode]_vars

----------------------------------------------------------------------------
\* The chat input handler of src/app.py (lines 286-339): one run per
\* submitted question.

MaxTurns == 2
ChatAnswers == {"ans1"}
Greeting == [role |-> "assistant", content |-> "Hello!"]

\* the stores of the session's rag_system
ChatStores(src) ==
    {[present |-> FALSE, docs |-> <<>>],
     [present |-> TRUE, docs |-> StoreDocs(src, 1)]}

\* one get_answer call that returns, as a function of its arguments and of
\* what the reranker (sc) and the generator (content) answer; with the stores
\* as the call leaves them
GetAnswer(course, faq, sc, content, debug_mode) ==
    LET all == Merged(course, faq)
        res == IF all = <<>> THEN <<>> ELSE rerank(sc)
        best == IF all = <<>> THEN <<>> ELSE rerank_docs(all, res)
        written == WriteBack(all, res)
    IN  [ret |-> IF ShortCircuit(best) THEN EarlyReturn
                 ELSE AnswerRecord(content, written, best, debug_mode),
         course |-> CourseAfter(course, written),
         faq |-> FaqAfter(course, faq, written)]

\* which collaborator call of get_answer is reached and so may raise
CanRaise(stage, course, faq, returned) ==
    CASE stage = "search" -> course.present \/ faq.present
      [] stage = "rerank" -> Merged(course, faq) # <<>>
      [] stage = "llm" -> returned # EarlyReturn

\* Mutant of the error text: the bare error
ErrorTextBare(e) == e

\* line 334: f"Sorry, I encountered an error: {str(e)}"
ErrorText(e) == "Sorry, I encountered an error: " \o e

\* debug_info["timings"]["total"] if debug_info and "timings" in debug_info
HasTimings(debug_info) == debug_info # None /\ "timings" \in DOMAIN debug_info

InitChat ==
    /\ pc = "idle"
    /\ question \in Questions
    /\ course_store \in ChatStores("course")
    /\ faq_store \in ChatStores("faq")
    /\ all_retrieved = <<>>
    /\ results = <<>>
    /\ best_docs = <<>>
    /\ llm_calls = 0
    /\ ret = None
    /\ exc = NoError
    /\ searches = <<>>
    /\ rank_fn = <<>>
    /\ calls = 0
    /\ prev_sources = <<>>
    /\ prompt = None
    /\ RerankIdle
    /\ HarnessIdle
    /\ EncodeIdle
    /\ AuxIdle
    /\ messages = <<Greeting>>
    /\ query_times = <<>>
    /\ last = None
    /\ loads = 1
    /\ clears = 0
    /\ served = {}

\* lines 286-339: the user message, get_answer, then the assistant message
\* of the try block or of the except branch
ChatInput ==
    /\ Len(messages) < 1 + 2 * MaxTurns
    /\ \E user_input \in Questions, debug_mode \in BOOLEAN,
          sc \in ScoreVectors(Len(Merged(course_store, faq_store))),
          content \in ChatAnswers :
          \E call \in {GetAnswer(course_store, faq_store, sc, content, debug_mode)},
             asked \in {Append(messages, [role |-> "user", content |-> user_input])},
             stage \in {"none", "search", "rerank", "llm"}, e \in Errors :
              IF stage = "none"
              THEN /\ query_times' =
                         IF HasTimings(call.ret.debug_info)
                         THEN Append(query_times, call.ret.debug_info.timings["total"])
                         ELSE query_times
                   /\ messages' =
                         Append(asked,
                                [role |-> "assistant",
                                 content |-> call.ret.answer,
                                 sources |-> call.ret.sources,
                                 timing |-> IF HasTimings(call.ret.debug_info)
                                            THEN call.ret.debug_info.timings["total"]
                                            ELSE 0])
                   /\ course_store' = call.course
                   /\ faq_store' = call.faq
                   /\ last' = [raised |-> FALSE, ret |-> call.ret]
              ELSE /\ CanRaise(stage, course_store, faq_store, call.ret)
                   /\ messages' =
                         Append(asked,
                                [role |-> "assistant", content |-> ErrorText(e)])
                   /\ course_store' =
                         IF stage = "llm" THEN call.course ELSE course_store
                   /\ faq_store' = IF stage = "llm" THEN call.faq ELSE faq_store
                   /\ last' = [raised |-> TRUE, error |-> e]
                   /\ UNCHANGED query_times
    /\ served' = served \cup {[instance |-> loads, clears |-> clears]}
    /\ UNCHANGED <<pc, question, all_retrieved, results, best_docs, llm_calls,
                   ret, exc, searches, rank_fn, calls, prev_sources, prompt, rrVars,
                   harnessVars, encVars, loads, clears, auxVars>>

NextChat == ChatInput

SpecChat == InitChat /\ [][NextChat]_vars

----------------------------------------------------------------------------
\* Helpers of the properties

MaxOf(sc) == CHOOSE m \in {sc[i] : i \in DOMAIN sc} : \A i \in DOMAIN sc : m >= sc[i]

AboveThreshold(sc) == {i \in DOMAIN sc : sc[i] > score_threshold}

Descending(docs) == \A k \in 1..(Len(docs) - 1) : docs[k].score >= docs[k + 1].score

\* the positions of docs whose document is `d` apart from the attached score
PositionsOf(docs, d) == {i \in DOMAIN docs : docs[i].page_content = d.page_content}

NoInfoRecord == [answer |-> NO_INFO, sources |-> <<>>, debug_info |-> None]

\* C1: when course_store and faq_store are both None, get_answer returns the
\* fixed no-information answer with an empty source list and llm.invoke is
\* never called.
C1_NoStores ==
    (~course_store.present /\ ~faq_store.present) =>
        /\ llm_calls = 0
        /\ pc = "returned" => ret = NoInfoRecord

C1_Witness ==
    /\ ~course_store.present /\ ~faq_store.present
    /\ pc = "returned"

\* C2: whenever the filtered and truncated passage list is empty, get_answer
\* returns the could-not-find answer with no sources and the generator is not
\* invoked; the generator is invoked only when a passage survives.
C2_ShortCircuitOnEmpty ==
    /\ llm_calls <= 1
    /\ llm_calls > 0 => best_docs # <<>>
    /\ (pc = "returned" /\ best_docs = <<>>) => (ret = NoInfoRecord /\ llm_calls = 0)

C2_Witness ==
    /\ pc = "returned"
    /\ all_retrieved # <<>>
    /\ best_docs = <<>>
    /\ ret = NoInfoRecord

\* C3: for a non-empty candidate set whose rerank scores are all below
\* score_threshold and whose best score is below 0.20, rerank_docs returns an
\* empty result (and get_answer returns the fixed no-information answer).
C3_AllBelowFloor ==
    (/\ pc \in {"reranked", "returned"}
     /\ results # <<>>
     /\ \A i \in DOMAIN results : results[i].score < score_threshold
     /\ \A i \in DOMAIN results : results[i].score < fallback_floor)
        => /\ best_docs = <<>>
           /\ pc = "returned" => ret = NoInfoRecord

C3_Witness ==
    /\ pc = "returned"
    /\ Len(results) >= 2
    /\ \A i \in DOMAIN results : results[i].score < fallback_floor

\* the result is exactly one passage, the best-scoring candidate
OnlyTheBest ==
    /\ Len(rr_out.value) = 1
    /\ rr_out.value[1].score = MaxOf(rr_scores)
    /\ \E i \in DOMAIN rr_docs :
          /\ rr_scores[i] = MaxOf(rr_scores)
          /\ rr_out.value[1] = [rr_docs[i] EXCEPT !.score = rr_scores[i]]

\* C4 as stated: every score below score_threshold and the best score >= 0.20
\* (0.20 included) gives exactly one passage, the best-scoring one.
C4_AsStated ==
    (/\ rr_out.done
     /\ rr_scores # <<>>
     /\ \A i \in DOMAIN rr_scores : rr_scores[i] < score_threshold
     /\ MaxOf(rr_scores) >= fallback_floor)
        => OnlyTheBest

\* C4 as amended: every score below score_threshold and the best score
\* strictly above 0.20 gives exactly one passage, the best-scoring one; a best
\* score of exactly 0.20 gives the empty result.
C4_FallbackKeepsBest ==
    (/\ rr_out.done
     /\ rr_scores # <<>>
     /\ \A i \in DOMAIN rr_scores : rr_scores[i] < score_threshold)
        => /\ MaxOf(rr_scores) > fallback_floor => OnlyTheBest
           /\ MaxOf(rr_scores) = fallback_floor => rr_out.value = <<>>

C4_Witness ==
    /\ rr_out.done
    /\ Len(rr_scores) >= 2
    /\ \A i \in DOMAIN rr_scores : rr_scores[i] < score_threshold
    /\ MaxOf(rr_scores) > fallback_floor
    /\ rr_scores[1] < MaxOf(rr_scores)
    /\ Len(rr_out.value) = 1

\* C5: with at least one score above score_threshold, rerank_docs returns only
\* passages scored above the threshold, in descending score order, and
\* exactly the final_k highest-scoring of them (all of them when fewer).
C5_AboveThresholdTopK ==
    (rr_out.done /\ AboveThreshold(rr_scores) # {}) =>
        LET out == rr_out.value
        IN  /\ Len(out) = Min(final_k, Cardinality(AboveThreshold(rr_scores)))
            /\ \A k \in DOMAIN out : out[k].score > score_threshold
            /\ Descending(out)
            \* each passage is a candidate, once, with that candidate's score
            /\ \A k \in DOMAIN out :
                  /\ \E i \in AboveThreshold(rr_scores) :
                        out[k] = [rr_docs[i] EXCEPT !.score = rr_scores[i]]
                  /\ PositionsOf(out, out[k]) = {k}
            \* nothing left out scores higher than something kept
            /\ \A i \in AboveThreshold(rr_scores) :
                  PositionsOf(out, rr_docs[i]) = {} =>
                      \A k \in DOMAIN out : out[k].score >= rr_scores[i]

C5_Witness ==
    /\ rr_out.done
    /\ Cardinality(AboveThreshold(rr_scores)) > final_k
    /\ Len(rr_out.value) = final_k
    /\ rr_out.value[1].score > rr_out.value[final_k].score

\* C6: every result of rerank_docs has length at most final_k, and either all
\* its scores exceed score_threshold, or no candidate scored above the
\* threshold and the result is one passage whose score exceeds 0.20.
C6_RetrievalResultInvariant ==
    rr_out.done =>
        LET out == rr_out.value
        IN  /\ Len(out) <= final_k
            /\ \/ \A k \in DOMAIN out : out[k].score > score_threshold
               \/ /\ AboveThreshold(rr_scores) = {}
                  /\ Len(out) = 1
                  /\ out[1].score > fallback_floor

C6_Witness ==
    /\ rr_out.done
    /\ Len(rr_scores) > final_k
    /\ Len(rr_out.value) = final_k

HarnessOver == hpc \in {"grade", "evaluate", "metrics", "details", "write",
                        "to_csv", "log", "done", "crashed"}

\* the rows of the output file
ReportRows == IF variant = "run_test" THEN report.detailed_results ELSE report.rows

C8_ArtifactAlways ==
    (hpc \in {"done", "crashed"} /\ Len(answers) > 0) =>
        (report.exists \/ emergency.exists)

\* C9: in run_test.py and evaluate_mlflow.py, when evaluate() raises and at
\* least one row was accumulated, the error is caught, the emergency dump
\* holds every accumulated row (question, answer, contexts, ground truth of
\* each of the N test cases), and the script ends normally.
C9_EmergencyDumpOnScorerError ==
    [][(/\ hpc = "evaluate"
        /\ hpc' # "evaluate"
        /\ scored' = None
        /\ variant \in {"run_test", "evaluate_mlflow"}
        /\ Len(answers) > 0)
          => /\ hpc' = "done"
             /\ emergency'.exists
             /\ Len(emergency'.rows) = n_cases
             /\ \A i \in 1..n_cases :
                   emergency'.rows[i] =
                       [question |-> QuestionOf(i), answer |-> answers[i],
                        contexts |-> contexts[i], ground_truth |-> TruthOf(i)]
             /\ UNCHANGED <<report, hAcc>>]_vars

C9_Witness ==
    /\ hpc = "done"
    /\ variant = "run_test"
    /\ scored = None
    /\ n_cases >= 2
    /\ emergency.exists
    /\ ~report.exists

\* C10: in run_test.py each of the four metric lookups fails on its own: a
\* missing metric is recorded as 0, a present one keeps its value, and the
\* metrics mapping of the report has exactly the four keys.
C10_MetricsDefensive ==
    /\ (variant = "run_test" /\ hpc \in {"details", "write"}) =>
          /\ DOMAIN metrics_dict = Metrics
          /\ \A m \in Metrics :
                metrics_dict[m] = IF scored[m] = Missing THEN 0 ELSE scored[m]
    /\ (variant = "run_test" /\ report.exists) =>
          /\ DOMAIN report.metrics = Metrics
          /\ \A m \in Metrics :
                report.metrics[m] = IF scored[m] = Missing THEN 0 ELSE scored[m]

C10_Witness ==
    /\ variant = "run_test"
    /\ report.exists
    /\ scored["faithfulness"] = Missing
    /\ scored["context_recall"] = Missing
    /\ scored["answer_relevancy"] = 75
    /\ scored["answer_correctness"] = 100
    /\ report.metrics["faithfulness"] = 0
    /\ report.metrics["answer_relevancy"] = 75

\* one raw record per test case, in test-case order
RawRowsExpected ==
    [i \in 1..n_cases |->
        [question |-> QuestionOf(i), answer |-> answers[i],
         ground_truth |-> TruthOf(i), retrieved_scores |-> retrieval_scores[i]]]

\* C11: when the extraction of the scorer's per-row breakdown fails,
\* detailed_records falls back to the raw accumulated rows (one record per
\* test case, in test-case order, with that case's question, answer, ground
\* truth and retrieval scores), the script goes on to write the report, and
\* the report written holds these records as its detailed_results.
C11_RawRowFallback ==
    /\ [][(/\ hpc = "details"
           /\ hpc' # "details"
           /\ detailed_records' # ScoredRecords)
             => /\ detailed_records' = RawRowsExpected
                /\ hpc' = "write"]_vars
    /\ [][(hpc = "write" /\ report'.exists)
             => report'.detailed_results = detailed_records]_vars

C11_Witness ==
    /\ hpc = "done"
    /\ variant = "run_test"
    /\ report.exists
    /\ n_cases >= 2
    /\ failed[1] /\ ~failed[2]
    /\ report.detailed_results = RawRowsExpected
    /\ report.detailed_results # ScoredRecords
    /\ retrieval_scores[2] # <<>>

\* C12: in the report written by run_test.py every value under "metrics" is
\* one ordinary number, never a list, whatever results[m] was (numpy integer,
\* numpy float, array, list) and when the lookup raised.  (The claim asks for
\* a floating-point number; the integer literal that an integer or a missing
\* metric gives is let pass here.)
C12_ScalarFloats ==
    enc_pc = "done" =>
        \A m \in Metrics : enc_json[m].json \in {"real", "integer"}

\* C13: get_answer ends with an exception exactly when a collaborator (a
\* store search, the reranker, the generator) raised one: that error leaves
\* get_answer as it is and nothing is returned; and as long as no
\* collaborator raises, the call can always take its next step, up to a
\* normal return, whatever the stores hold and the reranker answers.
C13_OnlyCollaboratorErrors ==
    /\ exc.raised <=> pc = "raised"
    /\ pc = "raised" => (exc.error \in Errors /\ ret = None)
    /\ pc = "returned" => ret # None
    /\ pc = "start" => ENABLED Retrieve
    /\ pc = "retrieved" => ENABLED Rerank
    /\ pc = "reranked" => ENABLED (ReturnNoInfo \/ Generate)

C13_Witness ==
    /\ pc = "raised"
    /\ exc = [raised |-> TRUE, error |-> "RuntimeError"]
    /\ best_docs # <<>>
    /\ llm_calls = 1
    /\ ret = None

\* C14: every run of the chat input handler appends the user's message and,
\* directly after it, exactly one assistant message: the answer (or the
\* could-not-find answer) with its sources and timing when get_answer
\* returned, the text "Sorry, I encountered an error: ..." when it raised;
\* the earlier messages are kept as they are, and on the failure path the
\* recorded query times are unchanged.
C14_OneAssistantMessage ==
    [][messages' # messages =>
          LET n == Len(messages)
          IN  /\ Len(messages') = n + 2
              /\ SubSeq(messages', 1, n) = messages
              /\ \E q \in Questions :
                    messages'[n + 1] = [role |-> "user", content |-> q]
              /\ messages'[n + 2].role = "assistant"
              /\ IF last'.raised
                 THEN /\ messages'[n + 2] =
                            [role |-> "assistant",
                             content |-> "Sorry, I encountered an error: " \o last'.error]
                      /\ query_times' = query_times
                 ELSE /\ messages'[n + 2].content = last'.ret.answer
                      /\ messages'[n + 2].sources = last'.ret.sources
                      /\ last'.ret = EarlyReturn =>
                            (messages'[n + 2].content = NO_INFO
                             /\ messages'[n + 2].timing = 0
                             /\ query_times' = query_times)
                      /\ last'.ret # EarlyReturn =>
                            (messages'[n + 2].timing > 0
                             /\ query_times' =
                                   Append(query_times, messages'[n + 2].timing))]_vars

C14_Witness ==
    /\ Len(messages) = 5
    /\ messages[3].content = "ans1"
    /\ last = [raised |-> TRUE, error |-> "ConnectionError"]
    /\ messages[4].role = "user"
    /\ messages[5] = [role |-> "assistant",
                      content |-> "Sorry, I encountered an error: ConnectionError"]
    /\ query_times = <<Elapsed("total")>>

\* C15: when get_answer returns early because no passage is left, the record
\* returned still carries a timings map: the stages that ran (retrieval,
\* rerank) with their measured durations, the generation stage with zero.
C15_EarlyReturnTimings ==
    (pc = "returned" /\ best_docs = <<>>) =>
        /\ HasTimings(ret.debug_info)
        /\ {"retrieval", "rerank", "generation"} \subseteq DOMAIN ret.debug_info.timings
        /\ ret.debug_info.timings["retrieval"] = Elapsed("retrieval")
        /\ ret.debug_info.timings["rerank"] = Elapsed("rerank")
        /\ ret.debug_info.timings["generation"] = 0

\* what get_answer returns for the candidates and the reranked passages of
\* this state, the generator answering `content`, with debug_mode as given
RunWith(content, debug_mode) ==
    IF ShortCircuit(best_docs) THEN EarlyReturn
    ELSE AnswerRecord(content, all_retrieved, best_docs, debug_mode)

C17_SecondCallSameSources ==
    (calls >= 1 /\ pc = "returned") => ret.sources = prev_sources

C17_Witness ==
    /\ calls = 1
    /\ pc = "returned"
    /\ Len(ret.sources) >= 2
    /\ ret.sources[1].score > ret.sources[2].score
    /\ ret.sources = prev_sources
    /\ course_store.present
    /\ \E i \in DOMAIN course_store.docs : course_store.docs[i].score # NoScore

\* the candidates of one test case of run_test.py
HarnessCandidates ==
    (IF h_faq.present THEN similarity_search(h_faq, initial_k) ELSE <<>>)
    \o (IF h_course.present THEN similarity_search(h_course, initial_k) ELSE <<>>)

\* scores[j] is the score that a reranker scoring sc gave to the candidate
\* whose text is ctx[j], for every j, and no candidate is used twice
ScoresMatchContexts(ctx, scores, sc) ==
    /\ Len(scores) = Len(ctx)
    /\ \A j \in 1..(Len(scores) - 1) : scores[j] >= scores[j + 1]
    /\ \E p \in [1..Len(ctx) -> DOMAIN HarnessCandidates] :
          /\ \A j, k \in DOMAIN p : j # k => p[j] # p[k]
          /\ \A j \in DOMAIN p :
                /\ HarnessCandidates[p[j]].page_content = ctx[j]
                /\ sc[p[j]] = scores[j]

\* the i-th record of the report carries the accumulated scores of row i
ReportCarriesScores ==
    (variant = "run_test" /\ report.exists) =>
        /\ Len(report.detailed_results) = n_cases
        /\ \A i \in 1..n_cases :
              LET rec == report.detailed_results[i]
              IN  /\ rec.question = QuestionOf(i)
                  /\ rec.question = questions[i]
                  /\ rec.retrieved_scores = retrieval_scores[i]
                  /\ "contexts" \in DOMAIN rec => rec.contexts = contexts[i]

\* C18 as stated: in the report every row, failed rows included, has one
\* retrieval score per context text of that row.
C18_AsStated ==
    (variant = "run_test" /\ report.exists) =>
        \A i \in 1..n_cases :
            /\ report.detailed_results[i].question = QuestionOf(i)
            /\ Len(report.detailed_results[i].retrieved_scores) = Len(contexts[i])

\* C18 as amended: the i-th record of the report (scorer breakdown or raw-row
\* fallback) carries the question of test case i and the retrieval scores
\* accumulated for it; for a test case that was processed these are the
\* reranker's scores of exactly its context texts, one per text, in the same
\* order; for a failed test case the context is the sentinel "No context"
\* and the score list is empty.
C18_ScoresFollowContexts ==
    /\ [][(variant = "run_test" /\ h_i' = h_i + 1) =>
             IF failed'[h_i']
             THEN /\ contexts'[h_i'] = <<"No context">>
                  /\ retrieval_scores'[h_i'] = <<>>
             ELSE \E sc \in [DOMAIN HarnessCandidates -> HarnessScores] :
                      ScoresMatchContexts(contexts'[h_i'], retrieval_scores'[h_i'], sc)]_vars
    /\ []ReportCarriesScores

C18_Witness ==
    /\ hpc = "done"
    /\ variant = "run_test"
    /\ report.exists
    /\ n_cases >= 2
    /\ failed[1] /\ ~failed[2]
    /\ contexts[2] = <<<<"course", 1>>, <<"faq", 1>>>>
    /\ report.detailed_results[2].retrieved_scores = <<90, 50>>
    /\ report.detailed_results[1].retrieved_scores = <<>>

\* what one store gives to the fan-out: nothing when it is absent
ResultOf(store) ==
    IF store.present
    THEN SubSeq(store.docs, 1, Min(initial_k, Len(store.docs))) ELSE <<>>

\* the similarity_search calls made on store src
CallsOn(src) == {i \in DOMAIN searches : searches[i].store = src}

\* C19: the fan-out queries every store that is present exactly once, with
\* k = initial_k, and no store that is absent; the merged candidates are the
\* whole result of the course store followed by the whole result of the FAQ
\* store, duplicates kept, so their number is the sum of the two result
\* lengths, and with one store present they are that store's result.
C19_FanOutMerge ==
    /\ pc \in {"retrieved", "reranked", "returned"} =>
          /\ Cardinality(CallsOn("course")) = (IF course_store.present THEN 1 ELSE 0)
          /\ Cardinality(CallsOn("faq")) = (IF faq_store.present THEN 1 ELSE 0)
          /\ \A i \in DOMAIN searches : searches[i].k = initial_k
          /\ Len(all_retrieved) = Len(ResultOf(course_store)) + Len(ResultOf(faq_store))
    /\ pc = "retrieved" =>
          /\ all_retrieved = ResultOf(course_store) \o ResultOf(faq_store)
          /\ ~faq_store.present => all_retrieved = ResultOf(course_store)
          /\ ~course_store.present => all_retrieved = ResultOf(faq_store)

C19_Witness ==
    /\ pc = "retrieved"
    /\ Len(course_store.docs) = 2
    /\ Len(faq_store.docs) = 2
    /\ Len(all_retrieved) = 4
    /\ all_retrieved[2] = all_retrieved[4]
    /\ all_retrieved[1] # all_retrieved[3]
    /\ Len(searches) = 2

\* the results that rerank_docs keeps, before the cut to final_k: those above
\* the threshold, else the first one when it is above 0.20
KeptResults ==
    LET above == SelectSeq(results, LAMBDA r : r.score > score_threshold)
    IN  IF above # <<>> THEN above
        ELSE IF results # <<>> /\ results[1].score > fallback_floor
             THEN <<results[1]>> ELSE <<>>

\* the document the stores were loaded with that is candidate i of the call
LoadedCandidate(i) ==
    IF i <= CourseCount(course_store)
    THEN Doc("course", i) ELSE Doc("faq", i - CourseCount(course_store))

\* C20: the k-th passage of the result is the candidate at position id of the
\* merged candidates, for the k-th kept reranker result {id, score}, and it
\* carries that result's score, which is the score the reranker gave to the
\* candidate at that position; a candidate with the same content and
\* metadata at another position is left without a score, or with its own.
C20_PositionalScores ==
    pc \in {"reranked", "returned"} =>
        /\ Len(best_docs) = Min(final_k, Len(KeptResults))
        /\ \A k \in DOMAIN best_docs :
              LET r == KeptResults[k]
              IN  /\ best_docs[k] = [LoadedCandidate(r.id) EXCEPT !.score = r.score]
                  /\ best_docs[k] = all_retrieved[r.id]
                  /\ r.score = rank_fn[r.id]
        /\ \A i \in DOMAIN all_retrieved :
              all_retrieved[i] =
                  [LoadedCandidate(i) EXCEPT !.score =
                      IF \E k \in DOMAIN KeptResults : KeptResults[k].id = i
                      THEN rank_fn[i] ELSE NoScore]

C20_Witness ==
    /\ pc = "reranked"
    /\ Len(all_retrieved) = 4
    /\ all_retrieved[2].page_content = all_retrieved[4].page_content
    /\ all_retrieved[2].title = all_retrieved[4].title
    /\ rank_fn = <<50, 30, 10, 90>>
    /\ Len(best_docs) = 2
    /\ best_docs[1] = all_retrieved[4]
    /\ best_docs[1].score = 90
    /\ all_retrieved[2].score = NoScore

\* the generator has been invoked in this call (it answered or it raised)
Generated == pc \in {"returned", "raised"} /\ best_docs # <<>>

\* C21: whenever at least one passage survives, get_answer invokes the
\* generator exactly once, with a prompt whose question is the user's question
\* and whose context block is the content of every surviving passage, in the
\* order of the result (descending score), two neighbours separated by a blank
\* line; before that point of the call the generator has not been invoked.
C21_OnePromptPerAnswer ==
    /\ Generated =>
          /\ llm_calls = 1
          /\ prompt # None
          /\ prompt.question = question
          /\ Descending(best_docs)
          /\ Len(prompt.context) = 2 * Len(best_docs) - 1
          /\ \A i \in 1..Len(best_docs) :
                prompt.context[2 * i - 1] = best_docs[i].page_content
          /\ \A i \in 1..(Len(best_docs) - 1) : prompt.context[2 * i] = <<"\n\n">>
    /\ ~Generated => (llm_calls = 0 /\ prompt = None)

C21_Witness ==
    /\ pc = "returned"
    /\ Len(best_docs) >= 3
    /\ best_docs[1].score > best_docs[2].score
    /\ best_docs[1].page_content # best_docs[3].page_content
    /\ llm_calls = 1

\* the title and the url a descriptor shows for a loaded document
ShownTitle(d) == IF d.title = Absent THEN <<"Unknown">> ELSE d.title

ShownUrl(d) == IF d.url = Absent THEN <<"#">> ELSE d.url

\* C22: the source list returned by get_answer has one descriptor per
\* surviving passage, in the order of the passages of the context block,
\* passages that share a title included; descriptor k holds the title of
\* passage k ("Unknown" if absent), its url ("#" if absent), the score the
\* reranker gave it in this call, and its raw content.
C22_OneSourcePerPassage ==
    (pc = "returned" /\ best_docs # <<>>) =>
        /\ Len(ret.sources) = Len(best_docs)
        /\ Len(ret.sources) = Min(final_k, Len(KeptResults))
        /\ \A k \in DOMAIN ret.sources :
              LET r == KeptResults[k]
                  d == LoadedCandidate(r.id)
              IN  /\ DOMAIN ret.sources[k] = {"title", "url", "score", "content"}
                  /\ ret.sources[k].content = prompt.context[2 * k - 1]
                  /\ ret.sources[k].content = d.page_content
                  /\ ret.sources[k].title = ShownTitle(d)
                  /\ ret.sources[k].url = ShownUrl(d)
                  /\ ret.sources[k].score = r.score
                  /\ ret.sources[k].score = rank_fn[r.id]

C22_Witness ==
    /\ pc = "returned"
    /\ Len(ret.sources) = 3
    /\ ret.sources[1].title = <<"Unknown">>
    /\ ret.sources[3].title = <<"Unknown">>
    /\ ret.sources[1].url = <<"#">>
    /\ ret.sources[2].title # <<"Unknown">>
    /\ ret.sources[2].url # <<"#">>
    /\ ret.sources[1].score > ret.sources[2].score

----------------------------------------------------------------------------
\* run_hybrid of get_qa_chain (src/backend.py lines 93-136): the chain that
\* takes an optional topic list.  One call: the FAQ search, the course
\* search, then reranking, generation and the returned pair.

HYBRID_K == 10
\* 0.001, in thousandths
backend_threshold_milli == 1

Topics == {"fees", "visa"}
\* the reranker's scores met by the chain (hundredths)
HybridScores == {0, 50}

\* a Document of the chain's stores: metadata with "topics", without "source"
HybridDoc(src, i, topic) ==
    [page_content |-> <<src, i>>,
     title |-> IF i % 2 = 1 THEN <<"title", src, i>> ELSE Absent,
     source |-> Absent,
     topics |-> topic,
     score |-> NoScore]

\* load_vectorstore: None when the folder does not exist
HybridCourseStores ==
    {[present |-> FALSE, docs |-> <<>>]}
        \cup {[present |-> TRUE, docs |-> [i \in 1..n |-> HybridDoc("course", i, "fees")]] :
                n \in 0..MaxStoreDocs}

HybridFaqStores ==
    {[present |-> FALSE, docs |-> <<>>]}
        \cup UNION {{[present |-> TRUE,
                      docs |-> [i \in 1..n |-> HybridDoc("faq", i, t[i])]] :
                        t \in [1..n -> Topics]} : n \in 0..MaxStoreDocs}

\* the inputs mapping: "topics" may be missing, empty, or name some topics
HybridInputs ==
    {[question |-> q] : q \in Questions}
        \cup {[question |-> q, topics |-> T] : q \in Questions, T \in SUBSET Topics}

\* line 95: inputs.get("topics", [])
TopicsOf(inputs) == IF "topics" \in DOMAIN inputs THEN inputs.topics ELSE {}

\* lines 98-101: search_kwargs
SearchKwargs(topics) ==
    IF topics # {}
    THEN [k |-> HYBRID_K, filter |-> [topics |-> [in |-> topics]]]
    ELSE [k |-> HYBRID_K]

\* similarity_search(question, **kwargs): the k nearest documents, of those
\* the filter lets through when there is one
SearchWith(store, kwargs) ==
    LET allowed == IF "filter" \in DOMAIN kwargs
                   THEN SelectSeq(store.docs,
                                  LAMBDA d : d.topics \in kwargs.filter.topics.in)
                   ELSE store.docs
    IN  SubSeq(allowed, 1, Min(kwargs.k, Len(allowed)))

\* line 61: res['score'] > 0.001
PassesBackendThreshold(score) == score * 10 > backend_threshold_milli

\* lines 59-64: every result above 0.001, in order, with its score attached
RECURSIVE BackendFilterLoop(_, _)
BackendFilterLoop(docs, res) ==
    IF res = <<>> THEN <<>>
    ELSE IF PassesBackendThreshold(Head(res).score)
         THEN <<Attach(docs, Head(res))>> \o BackendFilterLoop(docs, Tail(res))
         ELSE BackendFilterLoop(docs, Tail(res))

\* lines 45-66: rerank_docs of backend.py, after the reranker answered with res
backend_rerank_docs(docs, res) ==
    LET sorted_docs == BackendFilterLoop(docs, res)
    IN  SubSeq(sorted_docs, 1, Min(5, Len(sorted_docs)))

\* lines 127-134: source_data, one entry per passage
SourceData(docs) ==
    [i \in 1..Len(docs) |->
        [title |-> IF docs[i].title = Absent THEN <<"Unknown">> ELSE docs[i].title,
         source |-> IF docs[i].source = Absent
                    THEN <<"University Database">> ELSE docs[i].source,
         content |-> docs[i].page_content,
         score |-> IF docs[i].score = NoScore THEN 0 ELSE docs[i].score]]

\* the documents of docs as the loop of lines 59-64 leaves them: the score
\* written into every one whose result is above 0.001
HybridWritten(docs, res) ==
    [i \in DOMAIN docs |->
        IF \E j \in DOMAIN res : res[j].id = i /\ PassesBackendThreshold(res[j].score)
        THEN Attach(docs, res[CHOOSE j \in DOMAIN res : res[j].id = i])
        ELSE docs[i]]

\* a store whose documents are replaced by their written versions
HybridStoreAfter(store, written) ==
    [store EXCEPT !.docs =
        [i \in DOMAIN store.docs |->
            IF \E k \in DOMAIN written :
                  written[k].page_content = store.docs[i].page_content
            THEN written[CHOOSE k \in DOMAIN written :
                            written[k].page_content = store.docs[i].page_content]
            ELSE store.docs[i]]]

InitHybrid ==
    /\ PipelineIdle
    /\ RerankIdle
    /\ HarnessIdle
    /\ EncodeIdle
    /\ ChatIdle
    /\ FeedbackIdle
    /\ CrawlIdle
    /\ hy_pc = "start"
    /\ hy_inputs \in HybridInputs
    /\ hy_course \in HybridCourseStores
    /\ hy_faq \in HybridFaqStores
    /\ hy_calls = <<>>
    /\ hy_faq_docs = <<>>
    /\ hy_course_docs = <<>>
    /\ hy_ret = None

\* lines 96-102: the FAQ store, searched with the topic filter when topics
\* is non-empty
HybridSearchFaq ==
    /\ hy_pc = "start"
    /\ IF hy_faq.present
       THEN LET search_kwargs == SearchKwargs(TopicsOf(hy_inputs))
            IN  /\ hy_faq_docs' = SearchWith(hy_faq, search_kwargs)
                /\ hy_calls' = Append(hy_calls, [store |-> "faq", kwargs |-> search_kwargs])
       ELSE UNCHANGED <<hy_faq_docs, hy_calls>>
    /\ hy_pc' = "faq_done"
    /\ UNCHANGED <<hy_inputs, hy_course, hy_faq, hy_course_docs, hy_ret,
                   pipeVars, rrVars, harnessVars, encVars, chatVars, sessVars,
                   feedbackVars, crawlVars>>

\* Mutant of the course search: the topic filter is passed to it as well
HybridSearchCourseFiltered ==
    /\ hy_pc = "faq_done"
    /\ IF hy_course.present
       THEN LET search_kwargs == SearchKwargs(TopicsOf(hy_inputs))
            IN  /\ hy_course_docs' = SearchWith(hy_course, search_kwargs)
                /\ hy_calls' = Append(hy_calls, [store |-> "course", kwargs |-> search_kwargs])
       ELSE UNCHANGED <<hy_course_docs, hy_calls>>
    /\ hy_pc' = "course_done"
    /\ UNCHANGED <<hy_inputs, hy_course, hy_faq, hy_faq_docs, hy_ret,
                   pipeVars, rrVars, harnessVars, encVars, chatVars, sessVars,
                   feedbackVars, crawlVars>>

\* lines 104-106: the course store, searched with k = 10 and nothing else
HybridSearchCourse ==
    /\ hy_pc = "faq_done"
    /\ IF hy_course.present
       THEN /\ hy_course_docs' = SearchWith(hy_course, [k |-> HYBRID_K])
            /\ hy_calls' = Append(hy_calls, [store |-> "course", kwargs |-> [k |-> HYBRID_K]])
       ELSE UNCHANGED <<hy_course_docs, hy_calls>>
    /\ hy_pc' = "course_done"
    /\ UNCHANGED <<hy_inputs, hy_course, hy_faq, hy_faq_docs, hy_ret,
                   pipeVars, rrVars, harnessVars, encVars, chatVars, sessVars,
                   feedbackVars, crawlVars>>

\* lines 108-136: merge (FAQ first), rerank_docs, one llm.invoke, source_data
HybridAnswer ==
    /\ hy_pc = "course_done"
    /\ LET all == hy_faq_docs \o hy_course_docs
       IN  \E sc \in [1..Len(all) -> HybridScores], content \in Answers :
              LET res == rerank(sc)
                  written == HybridWritten(all, res)
              IN  /\ hy_ret' = [answer |-> content,
                                source_data |->
                                    SourceData(IF all = <<>> THEN <<>>
                                               ELSE backend_rerank_docs(all, res))]
                  /\ hy_faq_docs' = SubSeq(written, 1, Len(hy_faq_docs))
                  /\ hy_course_docs' = SubSeq(written, Len(hy_faq_docs) + 1, Len(written))
                  /\ hy_faq' = HybridStoreAfter(hy_faq, written)
                  /\ hy_course' = HybridStoreAfter(hy_course, written)
    /\ hy_pc' = "returned"
    /\ UNCHANGED <<hy_inputs, hy_calls,
                   pipeVars, rrVars, harnessVars, encVars, chatVars, sessVars,
                   feedbackVars, crawlVars>>

NextHybrid ==
    \/ HybridSearchFaq
    \/ HybridSearchCourse
    \/ HybridAnswer

SpecHybrid == InitHybrid /\ [][NextHybrid]_vars

\* the contents of a list of documents
ContentsOf(docs) == [i \in 1..Len(docs) |-> docs[i].page_content]

\* the topic list the caller supplied (empty when the key is missing)
SuppliedTopics == IF "topics" \in DOMAIN hy_inputs THEN hy_inputs.topics ELSE {}

\* C23: run_hybrid passes a topic filter to the FAQ store only: with a
\* non-empty topic list the FAQ store is searched with a filter restricting
\* to those topics (and returns documents of those topics only) and the
\* course store is searched without a filter; with an empty or missing list
\* no search carries a filter; whatever the topics, the course store returns
\* its nearest documents, none held back.
C23_FilterOnFaqOnly ==
    /\ \A n \in DOMAIN hy_calls :
          LET c == hy_calls[n]
          IN  /\ c.kwargs.k = 10
              /\ c.store = "course" => DOMAIN c.kwargs = {"k"}
              /\ c.store = "faq" =>
                    IF SuppliedTopics # {}
                    THEN /\ DOMAIN c.kwargs = {"k", "filter"}
                         /\ c.kwargs.filter = [topics |-> [in |-> SuppliedTopics]]
                    ELSE DOMAIN c.kwargs = {"k"}
    /\ hy_pc \in {"course_done", "returned"} =>
          /\ ContentsOf(hy_course_docs) = ContentsOf(hy_course.docs)
          /\ Len(hy_calls) = (IF hy_faq.present THEN 1 ELSE 0)
                                + (IF hy_course.present THEN 1 ELSE 0)
    /\ hy_pc \in {"faq_done", "course_done", "returned"} =>
          ContentsOf(hy_faq_docs) =
              ContentsOf(SelectSeq(hy_faq.docs,
                                   LAMBDA d : SuppliedTopics # {} => d.topics \in SuppliedTopics))

C23_Witness ==
    /\ hy_pc = "returned"
    /\ SuppliedTopics = {"visa"}
    /\ Len(hy_faq.docs) = 2
    /\ Len(hy_faq_docs) = 1
    /\ Len(hy_course_docs) = 2
    /\ Len(hy_calls) = 2
    /\ Len(hy_ret.source_data) = 3

----------------------------------------------------------------------------
\* One browser session of the Streamlit script (src/app.py lines 157-339).
\* Every interaction runs the script from the top: initialize_rag_system()
\* (answered from st.cache_resource unless the cache was cleared), the
\* session-state defaults, the sidebar, the example buttons, the chat input.
\* A handler that ends in st.rerun() is followed at once by a run without
\* input, which is part of the same step.

MaxClears == 2
ExampleQuestions == {"example_0", "example_1"}

\* FAISS.load_local: the store as it is on disk, no score in any metadata
Reloaded(src, store) ==
    IF store.present
    THEN [present |-> TRUE, docs |-> StoreDocs(src, Len(store.docs))]
    ELSE store

\* lines 234-238: the sidebar's conversation statistics
ConversationStats(msgs) ==
    [shown |-> Len(msgs) > 1,
     user_msgs |-> Cardinality({i \in DOMAIN msgs : msgs[i].role = "user"}),
     assistant_msgs |->
         Cardinality({i \in DOMAIN msgs : msgs[i].role = "assistant"}) - 1]

\* lines 259-261: an example button adds the question to the history and
\* reruns; the rerun has no chat input, nothing is generated
ExampleButton ==
    /\ Len(messages) <= 1
    /\ \E example_q \in ExampleQuestions :
          messages' = Append(messages, [role |-> "user", content |-> example_q])
    /\ UNCHANGED <<query_times, last, sessVars, pipeVars, rrVars, harnessVars,
                   encVars, auxVars>>

\* lines 199-203: "Clear Chat History"; on the rerun "messages" is in the
\* session state, so the greeting is not added again
ClearChatHistory ==
    /\ messages' = <<>>
    /\ query_times' = <<>>
    /\ UNCHANGED <<last, sessVars, pipeVars, rrVars, harnessVars, encVars, auxVars>>

\* Mutant of "Clear Cache": the cached resources are kept
ClearCacheKeeps ==
    /\ clears < MaxClears
    /\ clears' = clears + 1
    /\ UNCHANGED <<loads, served, chatVars, pipeVars, rrVars, harnessVars,
                   encVars, auxVars>>

\* lines 195-197: "Clear Cache" empties st.cache_resource and reruns; the
\* rerun's initialize_rag_system() (line 159) builds the embedding model, the
\* reranker, the client and the stores again
ClearCache ==
    /\ clears < MaxClears
    /\ clears' = clears + 1
    /\ loads' = loads + 1
    /\ course_store' = Reloaded("course", course_store)
    /\ faq_store' = Reloaded("faq", faq_store)
    /\ UNCHANGED <<served, chatVars, pc, question, all_retrieved, results,
                   best_docs, llm_calls, ret, exc, searches, rank_fn, calls,
                   prev_sources, prompt, rrVars, harnessVars, encVars, auxVars>>

\* lines 159-170 in a fresh session (the page is loaded again): the cached
\* rag_system, new session state
NewSession ==
    /\ messages # <<Greeting>>
    /\ messages' = <<Greeting>>
    /\ query_times' = <<>>
    /\ UNCHANGED <<last, sessVars, pipeVars, rrVars, harnessVars, encVars, auxVars>>

NextSession ==
    \/ ChatInput
    \/ ExampleButton
    \/ ClearChatHistory
    \/ ClearCache
    \/ NewSession

\* the session of the configured application: PATHS["faq_store"] is None
\* (config.py line 17), so line 54 sets faq_store to None
InitSession == InitChat /\ ~faq_store.present

SpecSession == InitSession /\ [][NextSession]_vars

\* C24 as stated: across questions, reruns, "Clear Cache" and "Clear Chat
\* History" the resources are constructed at most once and every query uses
\* the instances of that one construction.
C24_AsStated ==
    /\ loads <= 1
    /\ \A s \in served : s.instance = 1

\* C24: the resources are constructed once when the script first runs and
\* once more on the rerun that follows each press of "Clear Cache", at no
\* other time (not on a question, a rerun, a new session or "Clear Chat
\* History"); every query uses the instances of the latest construction.
C24_OncePerClear ==
    /\ loads = 1 + clears
    /\ \A s \in served : s.instance = 1 + s.clears

C24_Witness ==
    /\ clears = 1
    /\ loads = 2
    /\ served = {[instance |-> 1, clears |-> 0], [instance |-> 2, clears |-> 1]}
    /\ messages = <<>>

\* C28 as stated: every user message of the history, typed or added by an
\* example button, is directly followed by an assistant message once the
\* interaction that added it has been handled; the history never ends with a
\* user message.
C28_EveryQuestionAnswered ==
    \A i \in DOMAIN messages :
        messages[i].role = "user" =>
            (i < Len(messages) /\ messages[i + 1].role = "assistant")

\* the replies in a history: the assistant messages other than the greeting
Replies(msgs) ==
    Cardinality({i \in DOMAIN msgs : msgs[i].role = "assistant" /\ msgs[i] # Greeting})

\* C29 as stated: whenever the sidebar shows the conversation statistics, the
\* bot-message count equals the number of assistant messages that are replies
\* (the greeting excluded), and it is not negative.
C29_BotCountIsReplies ==
    ConversationStats(messages).shown =>
        /\ ConversationStats(messages).assistant_msgs = Replies(messages)
        /\ ConversationStats(messages).assistant_msgs >= 0

\* C25 as stated: every test case that run_experiment processes gets the
\* outcome get_answer gives for the same stores under some scoring by the
\* reranker: the same answer (the fixed no-information answer, with no
\* generator call, when no passage survives), the same context texts in the
\* same order, with the same scores.
C25_HarnessMatchesPipeline ==
    variant = "run_test" =>
        \A i \in 1..h_i :
            ~failed[i] =>
                \E sc \in [1..Len(Merged(h_course, h_faq)) -> HarnessScores],
                   content \in HarnessAnswers :
                    \E r \in {GetAnswer(h_course, h_faq, sc, content, FALSE).ret} :
                        /\ r.answer = answers[i]
                        /\ [k \in 1..Len(r.sources) |-> r.sources[k].content] = contexts[i]
                        /\ [k \in 1..Len(r.sources) |-> r.sources[k].score]
                              = retrieval_scores[i]

\* C27: after every iteration of run_test.py's loop, passed or failed, the
\* five accumulators have one entry per test case gone through, and entry i
\* of each belongs to test case i: its question, its ground truth, and either
\* the answer with one score per context text, or the failure row ("Error",
\* ["No context"], no scores).
C27_AccumulatorsAligned ==
    variant = "run_test" =>
        /\ Len(questions) = h_i
        /\ Len(ground_truths) = h_i
        /\ Len(answers) = h_i
        /\ Len(contexts) = h_i
        /\ Len(retrieval_scores) = h_i
        /\ \A i \in 1..h_i :
              /\ questions[i] = QuestionOf(i)
              /\ ground_truths[i] = TruthOf(i)
              /\ IF failed[i]
                 THEN /\ answers[i] = "Error"
                      /\ contexts[i] = <<"No context">>
                      /\ retrieval_scores[i] = <<>>
                 ELSE /\ answers[i] \in HarnessAnswers
                      /\ Len(retrieval_scores[i]) = Len(contexts[i])

C27_Witness ==
    /\ variant = "run_test"
    /\ hpc = "loop"
    /\ h_i = 2
    /\ failed = <<TRUE, FALSE>>
    /\ Len(contexts[2]) = 2
    /\ Len(retrieval_scores) = 2

----------------------------------------------------------------------------
\* save_feedback (src/app.py lines 148-155): the feedback log, a CSV file
\* opened in append mode.

MaxFeedback == 3
FeedbackQueries == {"q1", "q2"}
FeedbackResponses == {"ans1", "ans2"}

\* line 154: the header row
FeedbackHeader == <<"Timestamp", "Query", "Response", "Helpful">>

\* line 155: the data row; datetime.datetime.now() is the time of the call
FeedbackRow(now, q, response, is_helpful) ==
    <<now, q, response, IF is_helpful THEN "Yes" ELSE "No">>

InitFeedback ==
    /\ PipelineIdle
    /\ RerankIdle
    /\ HarnessIdle
    /\ EncodeIdle
    /\ ChatIdle
    /\ HybridIdle
    /\ CrawlIdle
    /\ feedback_file = NoFile
    /\ fb_calls = <<>>

\* Mutant of save_feedback: the header is written on every call
SaveFeedbackHeaderAlways ==
    /\ Len(fb_calls) < MaxFeedback
    /\ \E q \in FeedbackQueries, response \in FeedbackResponses, is_helpful \in BOOLEAN :
          LET now == Len(fb_calls) + 1
              before == IF feedback_file.exists THEN feedback_file.rows ELSE <<>>
          IN  /\ feedback_file' =
                    [exists |-> TRUE,
                     rows |-> before \o <<FeedbackHeader,
                                          FeedbackRow(now, q, response, is_helpful)>>]
              /\ fb_calls' = Append(fb_calls, [now |-> now, question |-> q,
                                               response |-> response,
                                               is_helpful |-> is_helpful])
    /\ UNCHANGED <<pipeVars, rrVars, harnessVars, encVars, chatVars, sessVars,
                   hybridVars, crawlVars>>

\* lines 150-155: os.path.isfile, open(..., 'a'), the header when the file
\* did not exist, then the data row
SaveFeedback ==
    /\ Len(fb_calls) < MaxFeedback
    /\ \E q \in FeedbackQueries, response \in FeedbackResponses, is_helpful \in BOOLEAN :
          LET now == Len(fb_calls) + 1
              file_exists == feedback_file.exists
              before == IF file_exists THEN feedback_file.rows ELSE <<>>
              header == IF ~file_exists THEN <<FeedbackHeader>> ELSE <<>>
          IN  /\ feedback_file' =
                    [exists |-> TRUE,
                     rows |-> before \o header
                                \o <<FeedbackRow(now, q, response, is_helpful)>>]
              /\ fb_calls' = Append(fb_calls, [now |-> now, question |-> q,
                                               response |-> response,
                                               is_helpful |-> is_helpful])
    /\ UNCHANGED <<pipeVars, rrVars, harnessVars, encVars, chatVars, sessVars,
                   hybridVars, crawlVars>>

NextFeedback == SaveFeedback

SpecFeedback == InitFeedback /\ [][NextFeedback]_vars

\* C26: starting from no feedback file, after n >= 1 save_feedback calls the
\* log holds the header row (Timestamp, Query, Response, Helpful) as its
\* first row and nowhere else, followed by exactly n data rows, the k-th one
\* holding the arguments of the k-th call; a call leaves the rows already in
\* the file as they are and adds its own row at the end.
C26_HeaderOnceRowsInOrder ==
    /\ (fb_calls = <<>>) <=> ~feedback_file.exists
    /\ feedback_file.exists =>
          /\ Len(feedback_file.rows) = 1 + Len(fb_calls)
          /\ feedback_file.rows[1] = <<"Timestamp", "Query", "Response", "Helpful">>
          /\ \A k \in DOMAIN fb_calls :
                feedback_file.rows[k + 1] =
                    <<fb_calls[k].now, fb_calls[k].question, fb_calls[k].response,
                      IF fb_calls[k].is_helpful THEN "Yes" ELSE "No">>

C26_Witness ==
    /\ Len(fb_calls) = 3
    /\ fb_calls[1].is_helpful /\ ~fb_calls[2].is_helpful
    /\ fb_calls[1].question # fb_calls[3].question
    /\ Len(feedback_file.rows) = 4

----------------------------------------------------------------------------
\* The archive crawler (src/scripts_etl/srape_general.py): main's
\* breadth-first loop over (url, category, depth) entries.

max_pages == 50
ChildLimit == 5
MaxLinks == 2

\* the URLs of the site: the seeds and two more pages
Urls == {"seed1", "seed2", "page1", "page2"}

\* SEEDS, in order
SEEDS == <<[url |-> "seed1", category |-> "Accommodation"],
           [url |-> "seed2", category |-> "New Students"]>>

\* the links of a page as found in its snapshot: any list of site URLs,
\* repeats and links back to pages seen earlier included
LinkLists == UNION {[1..n -> Urls] : n \in 0..MaxLinks}

\* scrape_archive_page(target_url, category, depth): (None, []) when there is
\* no snapshot or the request fails, else the page and its links, which are
\* collected on the first pass only (depth == 1)
ScrapeOutcomes(depth) ==
    {[data |-> "none", links |-> <<>>]}
        \cup {[data |-> c, links |-> IF depth = 1 THEN l ELSE <<>>] :
                c \in {"short", "long"}, l \in LinkLists}

\* lines 112-114: children[:5] that are not in visited, one level deeper
RECURSIVE Enqueue(_, _, _, _)
Enqueue(q, children, seen, entry) ==
    IF children = <<>> THEN q
    ELSE Enqueue(IF Head(children) \notin seen
                 THEN Append(q, [url |-> Head(children),
                                 category |-> entry.category,
                                 depth |-> entry.depth + 1])
                 ELSE q,
                 Tail(children), seen, entry)

\* lines 85-96: the seeds at depth 1, nothing visited
InitCrawl ==
    /\ PipelineIdle
    /\ RerankIdle
    /\ HarnessIdle
    /\ EncodeIdle
    /\ ChatIdle
    /\ HybridIdle
    /\ FeedbackIdle
    /\ cr_pc = "loop"
    /\ queue = [i \in 1..Len(SEEDS) |->
                   [url |-> SEEDS[i].url, category |-> SEEDS[i].category, depth |-> 1]]
    /\ visited = {}
    /\ scraped_data = <<>>
    /\ fetched = [u \in Urls |-> 0]
    /\ skips = 0
    /\ output_file = NoFile

\* lines 98-101: the entry popped is a URL already visited
CrawlSkipVisited ==
    /\ cr_pc = "loop"
    /\ queue # <<>> /\ Len(scraped_data) < max_pages
    /\ Head(queue).url \in visited
    /\ queue' = Tail(queue)
    /\ skips' = skips + 1
    /\ UNCHANGED <<cr_pc, visited, scraped_data, fetched, output_file,
                   pipeVars, rrVars, harnessVars, encVars, chatVars, sessVars,
                   hybridVars, feedbackVars>>

\* Mutant of the fetch: the popped URL is fetched whether visited or not
CrawlFetchAgain ==
    /\ cr_pc = "loop"
    /\ queue # <<>> /\ Len(scraped_data) < max_pages
    /\ LET entry == Head(queue)
       IN  /\ visited' = visited \cup {entry.url}
           /\ fetched' = [fetched EXCEPT ![entry.url] = @ + 1]
           /\ \E page \in ScrapeOutcomes(entry.depth) :
                 IF page.data = "long"
                 THEN /\ scraped_data' =
                            Append(scraped_data,
                                   [url |-> entry.url, category |-> entry.category])
                      /\ queue' =
                            IF entry.depth < 2
                            THEN Enqueue(Tail(queue),
                                         SubSeq(page.links, 1,
                                                Min(ChildLimit, Len(page.links))),
                                         visited', entry)
                            ELSE Tail(queue)
                 ELSE /\ queue' = Tail(queue)
                      /\ UNCHANGED scraped_data
    /\ UNCHANGED <<cr_pc, skips, output_file,
                   pipeVars, rrVars, harnessVars, encVars, chatVars, sessVars,
                   hybridVars, feedbackVars>>

\* lines 99-117: the entry popped is new: it is marked visited and fetched;
\* a page with more than 200 characters is kept and, at depth 1, its first
\* five links that are not visited are queued at depth 2
CrawlFetch ==
    /\ cr_pc = "loop"
    /\ queue # <<>> /\ Len(scraped_data) < max_pages
    /\ Head(queue).url \notin visited
    /\ LET entry == Head(queue)
       IN  /\ visited' = visited \cup {entry.url}
           /\ fetched' = [fetched EXCEPT ![entry.url] = @ + 1]
           /\ \E page \in ScrapeOutcomes(entry.depth) :
                 IF page.data = "long"
                 THEN /\ scraped_data' =
                            Append(scraped_data,
                                   [url |-> entry.url, category |-> entry.category])
                      /\ queue' =
                            IF entry.depth < 2
                            THEN Enqueue(Tail(queue),
                                         SubSeq(page.links, 1,
                                                Min(ChildLimit, Len(page.links))),
                                         visited', entry)
                            ELSE Tail(queue)
                 ELSE /\ queue' = Tail(queue)
                      /\ UNCHANGED scraped_data
    /\ UNCHANGED <<cr_pc, skips, output_file,
                   pipeVars, rrVars, harnessVars, encVars, chatVars, sessVars,
                   hybridVars, feedbackVars>>

\* lines 98, 119-122: the loop condition fails; the pages are written
CrawlExit ==
    /\ cr_pc = "loop"
    /\ ~(queue # <<>> /\ Len(scraped_data) < max_pages)
    /\ output_file' = [exists |-> TRUE, pages |-> scraped_data]
    /\ cr_pc' = "done"
    /\ UNCHANGED <<queue, visited, scraped_data, fetched, skips,
                   pipeVars, rrVars, harnessVars, encVars, chatVars, sessVars,
                   hybridVars, feedbackVars>>

NextCrawl ==
    \/ CrawlSkipVisited
    \/ CrawlFetch
    \/ CrawlExit

SpecCrawl == InitCrawl /\ [][NextCrawl]_vars

\* main is a sequential loop: while it can take a step it takes one
SpecCrawlFair == SpecCrawl /\ WF_vars(NextCrawl)

\* every URL fetched at most once; every queued entry at depth 1 or 2; the
\* kept pages are visited URLs, each kept once
CrawlSafe ==
    /\ \A u \in Urls : fetched[u] <= 1
    /\ \A u \in Urls : fetched[u] = 1 <=> u \in visited
    /\ \A i \in DOMAIN queue : queue[i].depth \in {1, 2}
    /\ \A i \in DOMAIN scraped_data : scraped_data[i].url \in visited
    /\ \A i, j \in DOMAIN scraped_data :
          i # j => scraped_data[i].url # scraped_data[j].url

\* C30: whatever the pages link to (cycles, a URL queued several times before
\* its turn), the crawler's loop ends and the output is written; no URL is
\* fetched twice and no entry is ever queued deeper than depth 2.
C30_CrawlTerminates ==
    /\ []CrawlSafe
    /\ <>(cr_pc = "done" /\ output_file.exists)

C30_Witness ==
    /\ cr_pc = "done"
    /\ skips >= 2
    /\ visited = {"seed1", "seed2", "page1"}
    /\ Len(scraped_data) = 3
    /\ queue = <<>>

====
